---- MODULE Spec2Model ----
(***************************************************************************)
(* Chat relay backend (main.py, ai_handler.py): user websocket sessions,   *)
(* manager websocket sessions, the manager-send HTTP call, the in-memory   *)
(* registries and hand-off set, and the relational store behind them.      *)
(* Every coroutine is cut at its suspension points (await): one action is  *)
(* the code that runs between two suspensions.                             *)
(***************************************************************************)
EXTENDS Integers, Sequences, FiniteSets, TLC

\* ------------------------------------------------------------ identities
Chats == {"c1", "c2"}          \* chat_id values of the query string
Sockets == {"A", "B"}          \* user WebSocket objects
Managers == {"m1", "m2"}       \* manager WebSocket objects
Requests == {"r1"}             \* slots of POST /manager/send calls
Tasks == Sockets \cup Requests
None == "None"

\* The payload slot of a manager-send call when no call is in progress.
NoPayload ==
    [chat_id |-> None, message |-> <<>>, action |-> "absent",
     managerStatus |-> "absent"]

\* Texts are sequences of tokens.
Texts == {<<"hi">>}

\* ---------------------------------------------------------------- bounds
MaxInbound == 2        \* inbound user frames accepted in one run
MaxManagerSends == 2   \* POST /manager/send calls in one run
MaxPolls == 3          \* runs.list calls of one add_user_message call
TicksPerSecond == 2    \* clock ticks in a second

VARIABLES
    ai_configured,         \* OPENAI_KEY and ASSISTANT_ID are both set
    active_connections,    \* user_manager.active_connections
    mgr_connections,       \* manager_manager.active_connections (a list)
    active_manager_chats,  \* the hand-off set
    users, threads, messages, openai_threads,   \* the tables
    next_handle,           \* provider: next thread id it hands out
    clock,                 \* datetime.utcnow(), in ticks
    pending,               \* a manager-send call: its flushed, uncommitted row
    pc,                    \* position of every task
    chat, open, found, thread, msg, bot, oth,   \* locals of a user session
    mpc,                   \* position of every manager session
    payload,               \* a manager-send call: its payload
    bi,                    \* broadcast: the list iterator's index
    bstart, bsent,         \* broadcast: registered at its start / sent to
    wire,                  \* what the last step put on the wire: <<socket, frame>>
                           \* for a send_text, <<call, status>> for an HTTP response
    inbound, sends,        \* counters bounding the run
    am_pc,                 \* add_user_message: its position
    attempt,               \* add_user_message: attempt
    active_runs,           \* add_user_message: active_runs
    run_status,            \* provider: status of the thread's latest run
    polls, appends, submits  \* provider calls made: runs.list,
                           \* messages.create, submit_tool_outputs

registries == <<active_connections, mgr_connections, active_manager_chats>>
tables == <<users, threads, messages, openai_threads, next_handle, clock>>
locals == <<chat, open, found, thread, msg, bot, oth>>
http == <<payload, pending>>
bcast == <<bi, bstart, bsent>>
counters == <<inbound, sends>>
router == <<ai_configured, registries, tables, pc, locals, mpc, http, bcast,
            wire, counters>>
adder == <<am_pc, attempt, active_runs, run_status, polls, appends, submits>>
vars == <<router, adder>>

\* --------------------------------------------------------------- helpers
Range(s) == {s[i] : i \in DOMAIN s}

\* list.remove(x): drops the first occurrence of x
RECURSIVE ListRemove(_, _)
ListRemove(s, x) ==
    IF s = <<>> THEN <<>>
    ELSE IF Head(s) = x THEN Tail(s)
    ELSE <<Head(s)>> \o ListRemove(Tail(s), x)

\* ----------------------------------------------------------------- texts
ProviderErrors == {<<"boom">>}

\* main.py:225  f"Bot echo: {message_text}"
BotEcho(t) == <<"Bot echo: ">> \o t

\* main.py:207  f"Openai error: {e}."
OpenaiError(e) == <<"Openai error: ">> \o e \o <<".">>

\* The provider's citation brackets (U+3010, U+3011), one token each.
LBr == "[["
RBr == "]]"

\* Index of the first RBr of s at position 2 or later, 0 when there is none.
ClosePos(s) ==
    LET js == {j \in 2..Len(s) : s[j] = RBr}
    IN IF js = {} THEN 0 ELSE CHOOSE j \in js : \A k \in js : j <= k

\* ai_handler.py:134  re.sub(r'LBr[^RBr]+RBr', '', content): a bracket, at least
\* one token that is not a closing bracket, the closing bracket.
RECURSIVE remove_square_brackets(_)
remove_square_brackets(content) ==
    IF content = <<>> THEN <<>>
    ELSE IF Head(content) = LBr /\ ClosePos(content) >= 3
         THEN remove_square_brackets(
                  SubSeq(content, ClosePos(content) + 1, Len(content)))
         ELSE <<Head(content)>> \o remove_square_brackets(Tail(content))

\* Pages messages.list can return for a finished run (texts of its messages).
RunPages == {<< <<"ans", LBr, "4", "src", RBr>> >>}

\* ai_handler.py:119-128: the text of the last message of the page, "" for an
\* empty page, with the citations removed.
CreateRunText(page) ==
    remove_square_brackets(IF page = <<>> THEN <<>> ELSE page[Len(page)])

\* ---------------------------------------------------------------- frames
\* main.py:209-213, 231-235, 322-324: a frame for the user's socket
UserFrame(text, sender) ==
    [chat_id |-> None, type |-> "message", message |-> text, sender |-> sender]

\* main.py:166-171, 216-221, 238-243, 327-332: a frame for the managers
ManagerFrame(c, text, sender) ==
    [chat_id |-> c, type |-> "message", message |-> text, sender |-> sender]

\* ----------------------------------------------------------------- store
\* User.id is the primary key of a row whose chat_id is unique: a user row is
\* named by its chat_id. A thread's id is its position in `threads`, which is
\* its creation order.
\* main.py:60: the timestamp column's default is evaluated when the row's
\* INSERT is built (at the flush): the clock is read then. Two reads of the
\* clock never give the same tick. (The hour the default adds to every
\* reading moves all timestamps alike and is left out.)
Message(t, sender, content) ==
    [thread_id |-> t, sender |-> sender, content |-> content,
     timestamp |-> clock]

\* select(Thread).where(user_id == u).order_by(created_at.desc()).first()
LatestThread(u) ==
    LET ids == {i \in DOMAIN threads : threads[i] = u}
    IN IF ids = {} THEN 0 ELSE CHOOSE i \in ids : \A j \in ids : j <= i

\* select(OpenAIThread).where(user_id == u): the handles of the rows
Bindings(u) ==
    {openai_threads[i].openai_thread_id :
        i \in {j \in DOMAIN openai_threads : openai_threads[j].user_id = u}}

\* ------------------------------------------------------------ registries
\* A connect that keeps an entry it finds (first-connect-wins).
UserConnectKeepFirst(conns, c, ws) ==
    IF conns[c] # None THEN conns ELSE [conns EXCEPT ![c] = ws]

\* UserConnectionManager.connect (after accept): main.py:98
UserConnect(conns, c, ws) == [conns EXCEPT ![c] = ws]

\* UserConnectionManager.disconnect: main.py:100-103
UserDisconnect(conns, c) ==
    IF conns[c] # None THEN [conns EXCEPT ![c] = None] ELSE conns

\* ManagerConnectionManager.connect (after accept): main.py:260
ManagerConnect(conns, ws) == Append(conns, ws)

\* ManagerConnectionManager.disconnect: main.py:262-265
ManagerDisconnect(conns, ws) ==
    IF ws \in Range(conns) THEN ListRemove(conns, ws) ELSE conns

\* A claim check that always lets the responder run.
UnclaimedIgnored(c, claimed) == TRUE

\* main.py:173  chat_id not in active_manager_chats
Unclaimed(c, claimed) == c \notin claimed

\* The toggle without its `is not None` test: an absent managerStatus is
\* falsy and releases the chat.
ApplyManagerStatusFalsy(claimed, c, status) ==
    IF status = "true" THEN claimed \cup {c} ELSE claimed \ {c}

\* main.py:294, 299-305: managerStatus is "absent" (None), "true" or
\* "false" (given, and falsy).
ApplyManagerStatus(claimed, c, status) ==
    IF status = "absent" THEN claimed
    ELSE IF status = "true" THEN claimed \cup {c}
    ELSE claimed \ {c}

\* ------------------------------------------------------------------ Init
Init ==
    /\ ai_configured \in BOOLEAN
    /\ active_connections = [c \in Chats |-> None]
    /\ mgr_connections = <<>>
    /\ active_manager_chats = {}
    /\ users = {}
    /\ threads = <<>>
    /\ messages = <<>>
    /\ openai_threads = <<>>
    /\ next_handle = 1
    /\ clock = 1
    /\ pending = [r \in Requests |-> <<>>]
    /\ pc = [t \in Tasks |-> "idle"]
    /\ chat = [s \in Sockets |-> None]
    /\ open = [s \in Sockets |-> FALSE]
    /\ found = [s \in Sockets |-> FALSE]
    /\ thread = [s \in Sockets |-> 0]
    /\ msg = [s \in Sockets |-> <<>>]
    /\ bot = [s \in Sockets |-> <<>>]
    /\ oth = [s \in Sockets |-> 0]
    /\ mpc = [m \in Managers |-> "idle"]
    /\ payload = [r \in Requests |-> NoPayload]
    /\ bi = [t \in Tasks |-> 0]
    /\ bstart = [t \in Tasks |-> {}]
    /\ bsent = [t \in Tasks |-> {}]
    /\ wire = {}
    /\ inbound = 0
    /\ sends = 0
    /\ am_pc = "idle"
    /\ attempt = 0
    /\ active_runs = {}
    /\ run_status = "none"
    /\ polls = 0
    /\ appends = 0
    /\ submits = 0

\* ------------------------------------------------- user session: connect
\* main.py:113-117: no chat_id in the query string: close(1008), return.
ConnectNoChat(s) ==
    /\ pc[s] = "idle"
    /\ pc' = [pc EXCEPT ![s] = "done"]
    /\ wire' = {}
    /\ UNCHANGED <<adder, ai_configured, registries, tables, locals, mpc, http,
                   bcast, counters>>

\* main.py:119: accept, register; then the handler waits for select(User).
Connect(s, c) ==
    /\ pc[s] = "idle"
    /\ active_connections' = UserConnect(active_connections, c, s)
    /\ chat' = [chat EXCEPT ![s] = c]
    /\ open' = [open EXCEPT ![s] = TRUE]
    /\ pc' = [pc EXCEPT ![s] = "lookup"]
    /\ UNCHANGED <<adder, ai_configured, mgr_connections, active_manager_chats,
                   tables, found, thread, msg, bot, oth, mpc, http, bcast,
                   counters>>
    /\ wire' = {}

\* main.py:122-124: select(User).where(chat_id == chat_id) is answered.
Lookup(s) ==
    /\ pc[s] = "lookup"
    /\ found' = [found EXCEPT ![s] = chat[s] \in users]
    /\ pc' = [pc EXCEPT ![s] = "setup"]
    /\ wire' = {}
    /\ UNCHANGED <<adder, ai_configured, registries, tables, chat, open, thread,
                   msg, bot, oth, mpc, http, bcast, counters>>

\* main.py:126-149. A new user: insert the user and its thread; the insert
\* fails on users.chat_id's unique index when another session has inserted
\* the user since the select, and the exception leaves the handler (it is
\* raised outside the try of the receive loop: no disconnect) and the server
\* closes the socket. An existing user: its latest thread, or a new one.
\* (Locals that are not read again are dropped: here `found`, at the end of
\* a turn msg, bot and oth.)
Setup(s) ==
    /\ pc[s] = "setup"
    /\ IF found[s]
       THEN /\ IF LatestThread(chat[s]) # 0
               THEN /\ thread' = [thread EXCEPT ![s] = LatestThread(chat[s])]
                    /\ threads' = threads
               ELSE /\ thread' = [thread EXCEPT ![s] = Len(threads) + 1]
                    /\ threads' = Append(threads, chat[s])
            /\ pc' = [pc EXCEPT ![s] = "recv"]
            /\ UNCHANGED <<users, open>>
       ELSE IF chat[s] \in users
       THEN /\ pc' = [pc EXCEPT ![s] = "crashed"]
            /\ open' = [open EXCEPT ![s] = FALSE]
            /\ UNCHANGED <<users, threads, thread>>
       ELSE /\ users' = users \cup {chat[s]}
            /\ threads' = Append(threads, chat[s])
            /\ thread' = [thread EXCEPT ![s] = Len(threads) + 1]
            /\ pc' = [pc EXCEPT ![s] = "recv"]
            /\ open' = open
    /\ found' = [found EXCEPT ![s] = FALSE]
    /\ UNCHANGED <<adder, ai_configured, registries, messages, openai_threads,
                   next_handle, clock, chat, msg, bot, oth, mpc, http, bcast,
                   counters>>
    /\ wire' = {}

\* The client's end of a user socket goes away.
ClientClose(s) ==
    /\ pc[s] \notin {"idle", "done", "crashed"}
    /\ open[s]
    /\ open' = [open EXCEPT ![s] = FALSE]
    /\ wire' = {}
    /\ UNCHANGED <<adder, ai_configured, registries, tables, pc, chat, found,
                   thread, msg, bot, oth, mpc, http, bcast, counters>>

\* ------------------------------------------------------------- broadcast
BcastPcs == {"bcast_user", "bcast_bot", "ms_bcast"}

\* main.py:294, 318, 321-324, 331: the roles a manager-send writes. `action`
\* is "absent" (None), "true" or "false" (given, but falsy).
StoredSender(action) == IF action = "absent" THEN "manager" ELSE "action"
UserFrameSender(action) == IF action = "true" THEN "action" ELSE "manager"
BroadcastSender(action) == IF action = "absent" THEN "manager " ELSE "action"

\* The payload a task's broadcast carries.
BroadcastFrame(t) ==
    IF pc[t] = "bcast_user" THEN ManagerFrame(chat[t], msg[t], "user")
    ELSE IF pc[t] = "bcast_bot" THEN ManagerFrame(chat[t], bot[t], "bot")
    ELSE ManagerFrame(payload[t].chat_id, payload[t].message,
                      BroadcastSender(payload[t].action))

\* manager_manager.broadcast is entered: the list iterator starts at 0.
StartBroadcast(t) ==
    /\ bi' = [bi EXCEPT ![t] = 0]
    /\ bstart' = [bstart EXCEPT ![t] = Range(mgr_connections)]
    /\ bsent' = [bsent EXCEPT ![t] = {}]

\* The iterator is dropped.
EndBroadcast(t) ==
    /\ bi' = [bi EXCEPT ![t] = 0]
    /\ bstart' = [bstart EXCEPT ![t] = {}]
    /\ bsent' = [bsent EXCEPT ![t] = {}]

\* main.py:267-271: the iterator of `for connection in active_connections`
\* yields the element at its index while the index is inside the list as it
\* is now; send_text to it (a failure is caught and logged), and the
\* coroutine is suspended in the send.
BroadcastStep(t) ==
    /\ pc[t] \in BcastPcs
    /\ bi[t] < Len(mgr_connections)
    /\ LET m == mgr_connections[bi[t] + 1]
       IN /\ wire' = IF mpc[m] = "open"
                     THEN {<<m, BroadcastFrame(t)>>}
                     ELSE {}
          /\ bsent' = [bsent EXCEPT ![t] = @ \cup {m}]
    /\ bi' = [bi EXCEPT ![t] = @ + 1]
    /\ UNCHANGED <<adder, ai_configured, registries, tables, pc, locals, mpc, http,
                   bstart, counters>>

\* A send that also asks whether the socket's chat is unclaimed.
LiveUnclaimed(ws) ==
    ws # None /\ open[ws] /\ chat[ws] \notin active_manager_chats

\* A registry entry whose socket's client is there / is gone.
Live(ws) == ws # None /\ open[ws]
Dead(ws) == ws # None /\ ~open[ws]

\* ------------------------------------------- user session: receive loop
\* main.py:248-249: receive_text raises WebSocketDisconnect.
RecvDisconnect(s) ==
    /\ pc[s] = "recv"
    /\ ~open[s]
    /\ active_connections' = UserDisconnect(active_connections, chat[s])
    /\ pc' = [pc EXCEPT ![s] = "done"]
    /\ wire' = {}
    /\ UNCHANGED <<adder, ai_configured, mgr_connections, active_manager_chats,
                   tables, locals, mpc, http, bcast, counters>>

\* main.py:153-154, 250-252: a frame that is not a JSON object: json.loads or
\* payload.get raises, the handler disconnects the chat_id and ends (and the
\* server closes the socket of a handler that has ended).
ReceiveBad(s) ==
    /\ pc[s] = "recv"
    /\ open[s]
    /\ active_connections' = UserDisconnect(active_connections, chat[s])
    /\ pc' = [pc EXCEPT ![s] = "done"]
    /\ open' = [open EXCEPT ![s] = FALSE]
    /\ wire' = {}
    /\ UNCHANGED <<adder, ai_configured, mgr_connections, active_manager_chats,
                   tables, chat, found, thread, msg, bot, oth, mpc, http,
                   bcast, counters>>

\* main.py:153-172: a frame {"message": t}: persist it as sender=user, enter
\* the broadcast to the managers.
Receive(s, t) ==
    /\ pc[s] = "recv"
    /\ open[s]
    /\ inbound < MaxInbound
    /\ inbound' = inbound + 1
    /\ msg' = [msg EXCEPT ![s] = t]
    /\ messages' = Append(messages, Message(thread[s], "user", t))
    /\ clock' = clock + 1
    /\ pc' = [pc EXCEPT ![s] = "bcast_user"]
    /\ StartBroadcast(s)
    /\ wire' = {}
    /\ UNCHANGED <<adder, ai_configured, registries, users, threads, openai_threads,
                   next_handle, chat, open, found, thread, bot, oth, mpc,
                   http, sends>>

\* main.py:173-174, 224: the broadcast's loop ends; the claim check. A claimed
\* chat: back to receive_text. Otherwise the provider path waits for
\* select(OpenAIThread), the echo path sleeps.
AfterUserBroadcast(s) ==
    /\ pc[s] = "bcast_user"
    /\ bi[s] >= Len(mgr_connections)
    /\ IF Unclaimed(chat[s], active_manager_chats)
       THEN /\ pc' = [pc EXCEPT ![s] =
                        IF ai_configured THEN "ai_lookup" ELSE "echo"]
            /\ msg' = msg
       ELSE /\ pc' = [pc EXCEPT ![s] = "recv"]
            /\ msg' = [msg EXCEPT ![s] = <<>>]
    /\ EndBroadcast(s)
    /\ wire' = {}
    /\ UNCHANGED <<adder, ai_configured, registries, tables, chat, open, found,
                   thread, bot, oth, mpc, http, counters>>

\* main.py:177-179: select(OpenAIThread).where(user_id == user.id).first() is
\* answered: a row of the user (no order is asked for), or none (0).
AiLookup(s) ==
    /\ pc[s] = "ai_lookup"
    /\ \E h \in (IF Bindings(chat[s]) = {} THEN {0} ELSE Bindings(chat[s])) :
           oth' = [oth EXCEPT ![s] = h]
    /\ pc' = [pc EXCEPT ![s] = "ai_ensure"]
    /\ wire' = {}
    /\ UNCHANGED <<adder, ai_configured, registries, tables, chat, open, found,
                   thread, msg, bot, mpc, http, bcast, counters>>

\* main.py:205-207: a provider step raised.
ProviderFailed(s, e) ==
    /\ bot' = [bot EXCEPT ![s] = OpenaiError(e)]
    /\ pc' = [pc EXCEPT ![s] = "reply_user"]

\* main.py:181-192: no row: create_thread and insert the binding; a row:
\* add_user_message. Either call returns or raises.
AiEnsure(s) ==
    /\ pc[s] = "ai_ensure"
    /\ \/ /\ oth[s] = 0
          /\ openai_threads' = Append(openai_threads,
                 [user_id |-> chat[s], openai_thread_id |-> next_handle])
          /\ oth' = [oth EXCEPT ![s] = next_handle]
          /\ next_handle' = next_handle + 1
          /\ pc' = [pc EXCEPT ![s] = "ai_run"]
          /\ bot' = bot
       \/ /\ oth[s] # 0
          /\ pc' = [pc EXCEPT ![s] = "ai_run"]
          /\ UNCHANGED <<openai_threads, oth, next_handle, bot>>
       \/ /\ \E e \in ProviderErrors : ProviderFailed(s, e)
          /\ UNCHANGED <<openai_threads, oth, next_handle>>
    /\ wire' = {}
    /\ UNCHANGED <<adder, ai_configured, registries, users, threads, messages,
                   clock, chat,
                   open, found, thread, msg, mpc, http, bcast,
                   counters>>

\* main.py:194-204: create_run returns the reply, which is persisted as
\* sender=bot; or it raises.
AiRun(s) ==
    /\ pc[s] = "ai_run"
    /\ \/ \E page \in RunPages :
            /\ bot' = [bot EXCEPT ![s] = CreateRunText(page)]
            /\ messages' = Append(messages,
                   Message(thread[s], "bot", CreateRunText(page)))
            /\ clock' = clock + 1
            /\ pc' = [pc EXCEPT ![s] = "reply_user"]
       \/ /\ \E e \in ProviderErrors : ProviderFailed(s, e)
          /\ UNCHANGED <<messages, clock>>
    /\ wire' = {}
    /\ UNCHANGED <<adder, ai_configured, registries, users, threads, openai_threads,
                   next_handle, chat, open, found, thread, msg, oth, mpc,
                   http, bcast, counters>>

\* main.py:224-229: after the sleep, the echo reply is persisted.
Echo(s) ==
    /\ pc[s] = "echo"
    /\ bot' = [bot EXCEPT ![s] = BotEcho(msg[s])]
    /\ messages' = Append(messages, Message(thread[s], "bot", BotEcho(msg[s])))
    /\ clock' = clock + 1
    /\ pc' = [pc EXCEPT ![s] = "reply_user"]
    /\ wire' = {}
    /\ UNCHANGED <<adder, ai_configured, registries, users, threads, openai_threads,
                   next_handle, chat, open, found, thread, msg, oth, mpc,
                   http, bcast, counters>>

\* main.py:104-107, 214, 236: send_personal_message(frame, chat_id): no entry:
\* nothing happens; an entry: send_text. On a socket whose client is gone the
\* server either drops the frame or raises (it depends on the server's
\* version): the exception reaches the handler's outer except, which
\* disconnects the chat_id and ends the session (main.py:250-252).
ReplyUser(s) ==
    /\ pc[s] = "reply_user"
    /\ LET ws == active_connections[chat[s]]
       IN \/ /\ ~Live(ws)
             /\ pc' = [pc EXCEPT ![s] = "bcast_bot"]
             /\ StartBroadcast(s)
             /\ wire' = {}
             /\ UNCHANGED <<active_connections, open, msg, bot, oth>>
          \/ /\ Live(ws)
             /\ wire' = {<<ws, UserFrame(bot[s], "bot")>>}
             /\ pc' = [pc EXCEPT ![s] = "bcast_bot"]
             /\ StartBroadcast(s)
             /\ UNCHANGED <<active_connections, open, msg, bot, oth>>
          \/ /\ Dead(ws)
             /\ active_connections' =
                    UserDisconnect(active_connections, chat[s])
             /\ pc' = [pc EXCEPT ![s] = "done"]
             /\ open' = [open EXCEPT ![s] = FALSE]
             /\ msg' = [msg EXCEPT ![s] = <<>>]
             /\ bot' = [bot EXCEPT ![s] = <<>>]
             /\ oth' = [oth EXCEPT ![s] = 0]
             /\ wire' = {}
             /\ UNCHANGED bcast
    /\ UNCHANGED <<adder, ai_configured, mgr_connections, active_manager_chats,
                   tables, chat, found, thread, mpc, http, counters>>

\* main.py:222, 244: the broadcast of the bot's reply ends; back to
\* receive_text.
AfterBotBroadcast(s) ==
    /\ pc[s] = "bcast_bot"
    /\ bi[s] >= Len(mgr_connections)
    /\ pc' = [pc EXCEPT ![s] = "recv"]
    /\ msg' = [msg EXCEPT ![s] = <<>>]
    /\ bot' = [bot EXCEPT ![s] = <<>>]
    /\ oth' = [oth EXCEPT ![s] = 0]
    /\ EndBroadcast(s)
    /\ wire' = {}
    /\ UNCHANGED <<adder, ai_configured, registries, tables, chat, open, found,
                   thread, mpc, http, counters>>

\* ------------------------------------------------------ manager sessions
\* main.py:277: accept, append to the list; then the receive loop, which
\* only logs what it reads (main.py:279-281).
ManagerWsConnect(m) ==
    /\ mpc[m] = "idle"
    /\ mgr_connections' = ManagerConnect(mgr_connections, m)
    /\ mpc' = [mpc EXCEPT ![m] = "open"]
    /\ wire' = {}
    /\ UNCHANGED <<adder, ai_configured, active_connections, active_manager_chats,
                   tables, pc, locals, http, bcast, counters>>

\* The client's end of a manager socket goes away.
ManagerClientClose(m) ==
    /\ mpc[m] = "open"
    /\ mpc' = [mpc EXCEPT ![m] = "closed"]
    /\ wire' = {}
    /\ UNCHANGED <<adder, ai_configured, registries, tables, pc, locals, http,
                   bcast, counters>>

\* main.py:282-283: receive_text raises WebSocketDisconnect.
ManagerWsDisconnect(m) ==
    /\ mpc[m] = "closed"
    /\ mgr_connections' = ManagerDisconnect(mgr_connections, m)
    /\ mpc' = [mpc EXCEPT ![m] = "done"]
    /\ wire' = {}
    /\ UNCHANGED <<adder, ai_configured, active_connections, active_manager_chats,
                   tables, pc, locals, http, bcast, counters>>

\* ---------------------------------------------------- POST /manager/send
\* A payload: chat_id (None: absent or empty), message (<<>>: absent or
\* empty), action and managerStatus ("absent", "true", "false").
Flags == {"absent", "true", "false"}
Payloads ==
    [chat_id : Chats \cup {None}, message : Texts \cup {<<>>},
     action : Flags, managerStatus : Flags]

\* The check of the required fields without its second half.
InvalidChatOnly(p) == p.chat_id = None

\* main.py:296  not chat_id or not message
Invalid(p) == p.chat_id = None \/ p.message = <<>>

\* main.py:291-297: a call with a required field missing: HTTP 400.
ManagerSendInvalid(r, p) ==
    /\ pc[r] = "idle"
    /\ sends < MaxManagerSends
    /\ Invalid(p)
    /\ sends' = sends + 1
    /\ wire' = {<<r, "400">>}
    /\ UNCHANGED <<adder, ai_configured, registries, tables, pc, locals, mpc,
                   http, bcast, inbound>>

\* main.py:291-308: a valid call: the hand-off set follows managerStatus, then
\* the handler waits for select(User).
ManagerSend(r, p) ==
    /\ pc[r] = "idle"
    /\ sends < MaxManagerSends
    /\ ~Invalid(p)
    /\ sends' = sends + 1
    /\ active_manager_chats' =
           ApplyManagerStatus(active_manager_chats, p.chat_id,
                              p.managerStatus)
    /\ payload' = [payload EXCEPT ![r] = p]
    /\ pc' = [pc EXCEPT ![r] = "ms_db"]
    /\ wire' = {}
    /\ UNCHANGED <<adder, ai_configured, active_connections, mgr_connections,
                   tables, locals, mpc, pending, bcast, inbound>>

\* main.py:307-320: the user and its latest thread are read; either missing:
\* HTTP 404; else the message is persisted (the flush and the commit taken
\* as one step, as in the user session). (manager_status is not read again:
\* the slot forgets it.)
ManagerSendStore(r) ==
    /\ pc[r] = "ms_db"
    /\ IF payload[r].chat_id \notin users
          \/ LatestThread(payload[r].chat_id) = 0
       THEN /\ wire' = {<<r, "404">>}
            /\ pc' = [pc EXCEPT ![r] = "idle"]
            /\ payload' = [payload EXCEPT ![r] = NoPayload]
            /\ UNCHANGED <<messages, clock>>
       ELSE /\ messages' = Append(messages,
                   Message(LatestThread(payload[r].chat_id),
                           StoredSender(payload[r].action),
                           payload[r].message))
            /\ clock' = clock + 1
            /\ pc' = [pc EXCEPT ![r] = "ms_send"]
            /\ payload' = [payload EXCEPT ![r].managerStatus = "absent"]
            /\ wire' = {}
    /\ UNCHANGED <<adder, ai_configured, registries, users, threads,
                   openai_threads, next_handle, locals, mpc, pending, bcast,
                   counters>>

\* The same lines cut at the suspension between the flush and the commit.
\* main.py:307-319: the selects (HTTP 404 as above); then, leaving the
\* `async with db.begin()` block, the session flushes: the INSERT is built
\* (its timestamp is the clock's tick) and sent. The row is not in the table
\* until the transaction's COMMIT is done.
ManagerSendFlush(r) ==
    /\ pc[r] = "ms_db"
    /\ IF payload[r].chat_id \notin users
          \/ LatestThread(payload[r].chat_id) = 0
       THEN /\ wire' = {<<r, "404">>}
            /\ pc' = [pc EXCEPT ![r] = "idle"]
            /\ payload' = [payload EXCEPT ![r] = NoPayload]
            /\ UNCHANGED <<pending, clock>>
       ELSE /\ pending' = [pending EXCEPT ![r] =
                   <<Message(LatestThread(payload[r].chat_id),
                             StoredSender(payload[r].action),
                             payload[r].message)>>]
            /\ clock' = clock + 1
            /\ pc' = [pc EXCEPT ![r] = "ms_commit"]
            /\ payload' = [payload EXCEPT ![r].managerStatus = "absent"]
            /\ wire' = {}
    /\ UNCHANGED <<adder, ai_configured, registries, users, threads, messages,
                   openai_threads, next_handle, locals, mpc, bcast, counters>>

\* main.py:319-320: the transaction's COMMIT is done: the row is in the
\* table.
ManagerSendCommit(r) ==
    /\ pc[r] = "ms_commit"
    /\ messages' = messages \o pending[r]
    /\ pending' = [pending EXCEPT ![r] = <<>>]
    /\ pc' = [pc EXCEPT ![r] = "ms_send"]
    /\ wire' = {}
    /\ UNCHANGED <<adder, ai_configured, registries, users, threads,
                   openai_threads, next_handle, clock, locals, mpc, payload,
                   bcast, counters>>

\* main.py:321-326: send_personal_message to the target chat_id; an exception
\* of send_text leaves the handler: HTTP 500.
ManagerSendUser(r) ==
    /\ pc[r] = "ms_send"
    /\ LET ws == active_connections[payload[r].chat_id]
           frame == UserFrame(payload[r].message,
                              UserFrameSender(payload[r].action))
       IN \/ /\ ~Live(ws)
             /\ pc' = [pc EXCEPT ![r] = "ms_bcast"]
             /\ StartBroadcast(r)
             /\ wire' = {}
             /\ payload' = payload
          \/ /\ Live(ws)
             /\ wire' = {<<ws, frame>>}
             /\ pc' = [pc EXCEPT ![r] = "ms_bcast"]
             /\ StartBroadcast(r)
             /\ payload' = payload
          \/ /\ Dead(ws)
             /\ wire' = {<<r, "500">>}
             /\ pc' = [pc EXCEPT ![r] = "idle"]
             /\ payload' = [payload EXCEPT ![r] = NoPayload]
             /\ UNCHANGED bcast
    /\ UNCHANGED <<adder, ai_configured, registries, tables, locals, mpc,
                   pending, counters>>

\* main.py:327-333: the broadcast ends: {"status": "ok"}.
AfterManagerBroadcast(r) ==
    /\ pc[r] = "ms_bcast"
    /\ bi[r] >= Len(mgr_connections)
    /\ wire' = {<<r, "200">>}
    /\ pc' = [pc EXCEPT ![r] = "idle"]
    /\ payload' = [payload EXCEPT ![r] = NoPayload]
    /\ EndBroadcast(r)
    /\ UNCHANGED <<adder, ai_configured, registries, tables, locals, mpc,
                   pending, counters>>

\* ------------------------------------------------------------ the reads
\* A timestamp is a count of clock ticks, TicksPerSecond of them to a second.
\* datetime.isoformat() writes the fields from the widest to the narrowest,
\* each with a fixed number of digits, and leaves out the fraction of a
\* second when it is zero: here the whole seconds, then the fraction if any.
isoformat(ts) ==
    IF ts % TicksPerSecond = 0
    THEN <<ts \div TicksPerSecond>>
    ELSE <<ts \div TicksPerSecond, ts % TicksPerSecond>>

\* str < str of two isoformat strings (or ""): the first field that differs
\* decides, a proper prefix is the smaller.
RECURSIVE StrLess(_, _)
StrLess(a, b) ==
    IF b = <<>> THEN FALSE
    ELSE IF a = <<>> THEN TRUE
    ELSE IF Head(a) # Head(b) THEN Head(a) < Head(b)
    ELSE StrLess(Tail(a), Tail(b))

\* main.py:348, 368: where(thread_id == t): the thread's rows, as the table
\* holds them.
ThreadRows(t) == SelectSeq(messages, LAMBDA row : row.thread_id = t)

\* order_by(timestamp.asc()): row goes before the first row with a later
\* timestamp.
RECURSIVE InsertByTimestamp(_, _)
InsertByTimestamp(sorted, row) ==
    IF sorted = <<>> THEN <<row>>
    ELSE IF row.timestamp < Head(sorted).timestamp THEN <<row>> \o sorted
    ELSE <<Head(sorted)>> \o InsertByTimestamp(Tail(sorted), row)

RECURSIVE OrderByTimestamp(_)
OrderByTimestamp(rows) ==
    IF rows = <<>> THEN <<>>
    ELSE InsertByTimestamp(OrderByTimestamp(SubSeq(rows, 1, Len(rows) - 1)),
                           rows[Len(rows)])

\* main.py:351-354, 371-374: one entry of a history
HistoryEntry(row) ==
    [sender |-> row.sender, text |-> row.content,
     timestamp |-> isoformat(row.timestamp)]

\* main.py:348-355: the history of thread t
History(t) ==
    LET rows == OrderByTimestamp(ThreadRows(t))
    IN [i \in DOMAIN rows |-> HistoryEntry(rows[i])]

\* main.py:336-355: GET /history?chat_id=c. No user, or no thread: the
\* answer is [], with status 200; else the history of the latest thread. The
\* two selects before the last one read rows that never change once they are
\* there (a user, its one thread), so the call's answer is the one of its
\* last select.
get_chat_history(c) ==
    /\ wire' = {<<"GET /history",
                  [chat_id |-> c, status |-> "200",
                   body |-> IF c \notin users \/ LatestThread(c) = 0
                            THEN <<>> ELSE History(LatestThread(c))]>>}
    /\ UNCHANGED <<adder, ai_configured, registries, tables, pc, locals, mpc,
                   http, bcast, counters>>

\* main.py:375-379: the entry of a user in the listing. userName is
\* chat_id[-6:], the whole chat_id for the chat_ids here, which are shorter
\* than six characters.
ChatEntry(c) ==
    [id |-> c, userName |-> c, messages |-> History(LatestThread(c))]

\* main.py:380: the sort key: the timestamp string of the last message of
\* the entry, "" for an entry without messages.
SortKey(entry) ==
    IF entry.messages = <<>> THEN <<>>
    ELSE entry.messages[Len(entry.messages)].timestamp

\* The same insertion with the smaller key first.
RECURSIVE InsertByKeyAscending(_, _)
InsertByKeyAscending(sorted, entry) ==
    IF sorted = <<>> THEN <<entry>>
    ELSE IF StrLess(SortKey(entry), SortKey(Head(sorted)))
         THEN <<entry>> \o sorted
         ELSE <<Head(sorted)>> \o InsertByKeyAscending(Tail(sorted), entry)

\* main.py:380: list.sort(key=..., reverse=True): the greater key first,
\* entries with equal keys in the order they had (the sort is stable).
RECURSIVE InsertByKey(_, _)
InsertByKey(sorted, entry) ==
    IF sorted = <<>> THEN <<entry>>
    ELSE IF StrLess(SortKey(Head(sorted)), SortKey(entry))
         THEN <<entry>> \o sorted
         ELSE <<Head(sorted)>> \o InsertByKey(Tail(sorted), entry)

RECURSIVE SortChats(_)
SortChats(chats) ==
    IF chats = <<>> THEN <<>>
    ELSE InsertByKey(SortChats(SubSeq(chats, 1, Len(chats) - 1)),
                     chats[Len(chats)])

\* main.py:359-361: select(User) gives the users in an order of the
\* database's choice.
UserOrders ==
    {o \in [1..Cardinality(users) -> users] :
        \A i, j \in DOMAIN o : i # j => o[i] # o[j]}

\* main.py:362-379: the users that have a thread, in the order of `order`,
\* each with the history of its latest thread.
RECURSIVE Listed(_)
Listed(order) ==
    IF order = <<>> THEN <<>>
    ELSE IF LatestThread(Head(order)) = 0 THEN Listed(Tail(order))
    ELSE <<ChatEntry(Head(order))>> \o Listed(Tail(order))

\* main.py:357-381: GET /manager/chats. The selects of the loop are taken
\* at one moment: the answer is built from, and sorted by, the rows the
\* call has read.
get_manager_chats ==
    /\ \E order \in UserOrders :
           wire' = {<<"GET /manager/chats",
                      [status |-> "200", body |-> SortChats(Listed(order))]>>}
    /\ UNCHANGED <<adder, ai_configured, registries, tables, pc, locals, mpc,
                   http, bcast, counters>>

\* ------------------------------------------------------ add_user_message
\* ai_handler.py:32-107, against one provider thread whose latest run has
\* status run_status. The provider calls are blocking calls: the coroutine
\* is suspended only in asyncio.sleep, and the provider's run moves on
\* between two calls.
max_attempts == 5

RunStatuses == {"none", "queued", "in_progress", "requires_action", "completed"}

\* The provider's rule for messages.create: "Can't add messages to thread
\* while a run is active" for a run that has not ended.
RunActive(st) == st \in {"queued", "in_progress", "requires_action"}

\* How the provider's run moves on by itself (requires_action ends by
\* expiring).
RunSucc(st) ==
    IF st = "queued" THEN {"in_progress"}
    ELSE IF st = "in_progress" THEN {"completed", "requires_action"}
    ELSE IF st = "requires_action" THEN {"completed"}
    ELSE {}

\* ai_handler.py:39, 48: [run for run in runs if run.status == 'in_progress']
InProgressRuns(st) == IF st = "in_progress" THEN {"run"} ELSE {}

\* ai_handler.py:74-89: one submit_tool_outputs call for every run of
\* active_runs, the list the first polling loop left behind.
ForcedSubmits(runs) == Cardinality(runs)

\* add_user_message(thread_id, user_message) is called; the thread's latest
\* run is in any status.
AddStart(st) ==
    /\ am_pc = "idle"
    /\ am_pc' = "poll"
    /\ run_status' = st
    /\ UNCHANGED <<router, attempt, active_runs, polls, appends, submits>>

ProviderProgress(st) ==
    /\ am_pc \notin {"idle", "returned", "raised"}
    /\ st \in RunSucc(run_status)
    /\ run_status' = st
    /\ UNCHANGED <<router, am_pc, attempt, active_runs, polls, appends,
                   submits>>

\* A count of runs.list calls that stops counting at MaxPolls.
Polled(n) == IF n < MaxPolls THEN n + 1 ELSE n

\* ai_handler.py:46-51: runs.list; leave the loop when no run is in_progress,
\* else go to sleep. Or the call raises (line 102).
AddPoll ==
    /\ am_pc = "poll"
    /\ polls' = Polled(polls)
    /\ \/ /\ active_runs' = InProgressRuns(run_status)
          /\ am_pc' = IF InProgressRuns(run_status) = {}
                      THEN "append" ELSE "poll_sleep"
       \/ /\ am_pc' = "raised"
          /\ active_runs' = active_runs
    /\ UNCHANGED <<router, attempt, run_status, appends, submits>>

\* ai_handler.py:52: asyncio.sleep(1) is over: poll again.
AddPollWake ==
    /\ am_pc = "poll_sleep"
    /\ am_pc' = "poll"
    /\ UNCHANGED <<router, attempt, active_runs, run_status, polls, appends,
                   submits>>

\* ai_handler.py:54-70: messages.create. Accepted: return. Rejected for an
\* active run: attempt += 1, sleep, and the loop ends at max_attempts. Any
\* other error is raised.
AddAppend ==
    /\ am_pc = "append"
    /\ appends' = appends + 1
    /\ \/ /\ ~RunActive(run_status)
          /\ am_pc' = "returned"
          /\ attempt' = attempt
       \/ /\ RunActive(run_status)
          /\ attempt' = attempt + 1
          /\ am_pc' = IF attempt + 1 < max_attempts THEN "append" ELSE "force"
       \/ /\ am_pc' = "raised"
          /\ attempt' = attempt
    /\ UNCHANGED <<router, active_runs, run_status, polls, submits>>

\* ai_handler.py:72-89: the limit is reached: submit_tool_outputs for every
\* run of active_runs (a rejected submit is raised), then check_active_runs.
AddForce ==
    /\ am_pc = "force"
    /\ submits' = submits + ForcedSubmits(active_runs)
    /\ am_pc' \in (IF active_runs = {} THEN {"settle"}
                   ELSE {"settle", "raised"})
    /\ UNCHANGED <<router, attempt, active_runs, run_status, polls, appends>>

\* ai_handler.py:36-42, 91: check_active_runs: runs.list; return when no run
\* is in_progress, else go to sleep.
AddSettle ==
    /\ am_pc = "settle"
    /\ polls' = Polled(polls)
    /\ \/ am_pc' = IF InProgressRuns(run_status) = {}
                    THEN "final" ELSE "settle_sleep"
       \/ am_pc' = "raised"
    /\ UNCHANGED <<router, attempt, active_runs, run_status, appends, submits>>

\* ai_handler.py:43: asyncio.sleep(1) is over: poll again.
AddSettleWake ==
    /\ am_pc = "settle_sleep"
    /\ am_pc' = "settle"
    /\ UNCHANGED <<router, attempt, active_runs, run_status, polls, appends,
                   submits>>

\* ai_handler.py:92-101: one more messages.create; any error is raised.
AddFinal ==
    /\ am_pc = "final"
    /\ appends' = appends + 1
    /\ \/ /\ ~RunActive(run_status)
          /\ am_pc' = "returned"
       \/ am_pc' = "raised"
    /\ UNCHANGED <<router, attempt, active_runs, run_status, polls, submits>>

NextAppend ==
    \/ \E st \in RunStatuses : AddStart(st)
    \/ \E st \in RunStatuses : ProviderProgress(st)
    \/ AddPoll
    \/ AddPollWake
    \/ AddAppend
    \/ AddForce
    \/ AddSettle
    \/ AddSettleWake
    \/ AddFinal

SpecAppend == Init /\ [][NextAppend]_vars

\* The coroutine's own steps always come: a blocking provider call returns
\* or raises, and the event loop resumes a coroutine whose sleep is over.
\* Nothing makes the provider's run move on.
AddFairness ==
    /\ WF_vars(AddPoll)
    /\ WF_vars(AddPollWake)
    /\ WF_vars(AddAppend)
    /\ WF_vars(AddForce)
    /\ WF_vars(AddSettle)
    /\ WF_vars(AddSettleWake)
    /\ WF_vars(AddFinal)

SpecAppendFair == SpecAppend /\ AddFairness

\* ------------------------------------------------------------------ Next
\* The steps of the user session on socket s, whose chat_id is one of cs.
UserSession(s, cs) ==
    \/ ConnectNoChat(s)
    \/ \E c \in cs : Connect(s, c)
    \/ Lookup(s)
    \/ Setup(s)
    \/ ClientClose(s)
    \/ RecvDisconnect(s)
    \/ ReceiveBad(s)
    \/ \E t \in Texts : Receive(s, t)
    \/ BroadcastStep(s)
    \/ AfterUserBroadcast(s)
    \/ AiLookup(s)
    \/ AiEnsure(s)
    \/ AiRun(s)
    \/ Echo(s)
    \/ ReplyUser(s)
    \/ AfterBotBroadcast(s)

\* The steps of the manager session on socket m.
ManagerSession(m) ==
    \/ ManagerWsConnect(m)
    \/ ManagerClientClose(m)
    \/ ManagerWsDisconnect(m)

\* The steps of a manager-send call in slot r, its payload one of ps.
ManagerSendCall(r, ps) ==
    \/ \E p \in ps : ManagerSendInvalid(r, p)
    \/ \E p \in ps : ManagerSend(r, p)
    \/ ManagerSendStore(r)
    \/ ManagerSendUser(r)
    \/ BroadcastStep(r)
    \/ AfterManagerBroadcast(r)

\* The same call with its persist cut at the commit.
ManagerSendCallCut(r, ps) ==
    \/ \E p \in ps : ManagerSendInvalid(r, p)
    \/ \E p \in ps : ManagerSend(r, p)
    \/ ManagerSendFlush(r)
    \/ ManagerSendCommit(r)
    \/ ManagerSendUser(r)
    \/ BroadcastStep(r)
    \/ AfterManagerBroadcast(r)

\* The whole system.
Next ==
    \/ \E s \in Sockets : UserSession(s, Chats)
    \/ \E m \in Managers : ManagerSession(m)
    \/ \E r \in Requests : ManagerSendCallCut(r, Payloads)
    \/ \E c \in Chats : get_chat_history(c)
    \/ get_manager_chats
    \/ NextAppend

Spec == Init /\ [][Next]_vars

\* The specifications below are the system with some of its participants
\* left out, which keeps the state space within reach.

\* Two user sockets and one manager socket.
NextSessions ==
    \/ \E s \in Sockets : UserSession(s, Chats)
    \/ ManagerSession("m1")

SpecSessions == Init /\ [][NextSessions]_vars

\* One user socket on chat c1, one manager socket, and manager-send calls
\* without an action flag.
NextHandoff ==
    \/ UserSession("A", {"c1"})
    \/ ManagerSession("m1")
    \/ \E r \in Requests :
           ManagerSendCall(r, {p \in Payloads : p.action = "absent"})

SpecHandoff == Init /\ [][NextHandoff]_vars

\* One user socket and every manager socket.
NextBroadcast ==
    \/ UserSession("A", {"c1"})
    \/ \E m \in Managers : ManagerSession(m)

SpecBroadcast == Init /\ [][NextBroadcast]_vars

\* One user session, one manager session, manager-send calls that carry
\* neither flag, with their persist cut at the commit, and the history reads.
PlainPayloads ==
    {p \in Payloads : p.action = "absent" /\ p.managerStatus = "absent"}

NextHistory ==
    \/ UserSession("A", {"c1"})
    \/ ManagerSession("m1")
    \/ \E r \in Requests : ManagerSendCallCut(r, PlainPayloads)
    \/ \E c \in Chats : get_chat_history(c)

SpecHistory == Init /\ [][NextHistory]_vars

\* Two user sessions, each with a chat_id of its own, one manager session
\* and the listing reads.
NextListing ==
    \/ UserSession("A", {"c1"})
    \/ UserSession("B", {"c2"})
    \/ ManagerSession("m1")
    \/ get_manager_chats

SpecListing == Init /\ [][NextListing]_vars

\* One user session, one manager session and manager-send calls with any
\* action flag and no managerStatus.
ActionPayloads == {p \in Payloads : p.managerStatus = "absent"}

NextRoles ==
    \/ UserSession("A", {"c1"})
    \/ ManagerSession("m1")
    \/ \E r \in Requests : ManagerSendCall(r, ActionPayloads)

SpecRoles == Init /\ [][NextRoles]_vars

\* ================================================================ claims
\* A session is inside a turn: from the persisted user message to the end of
\* the reply's broadcast.
TurnPcs == {"bcast_user", "ai_lookup", "ai_ensure", "ai_run", "echo",
            "reply_user", "bcast_bot"}
InTurn(s) == pc[s] \in TurnPcs

ProviderErrorTexts == {OpenaiError(e) : e \in ProviderErrors}

\* The frames of the last step that went to a user or manager socket.
WiredFrames == {w \in wire : w[1] \in Sockets \cup Managers}

\* The senders of the persisted user and bot messages, in table order.
UserBotSenders ==
    LET keep == SelectSeq(messages, LAMBDA m : m.sender \in {"user", "bot"})
    IN [i \in DOMAIN keep |-> keep[i].sender]

\* C1: when socket s's session ends while the registry maps its chat_id to
\* another socket (one that connected later), the entry stays as it is: a
\* stale disconnect does not remove the newer connection.
C1_StaleDisconnectKeepsNewer ==
    [][\A s \in Sockets :
          (/\ pc[s] # "done"
           /\ pc'[s] = "done"
           /\ chat[s] \in Chats
           /\ active_connections[chat[s]] \notin {None, s})
          => active_connections'[chat[s]] = active_connections[chat[s]]]_vars

\* C2: every registry entry is a socket that connected with that chat_id, and
\* a connect makes its socket the entry of its chat_id (whatever the entry
\* was) and leaves every other chat_id's entry alone.
C2_LastConnectWins ==
    /\ [](\A c \in Chats :
             active_connections[c] # None => chat[active_connections[c]] = c)
    /\ [][\A s \in Sockets :
             (pc[s] = "idle" /\ pc'[s] = "lookup")
             => /\ active_connections'[chat'[s]] = s
                /\ \A c \in Chats \ {chat'[s]} :
                       active_connections'[c] = active_connections[c]]_vars

\* Socket B has replaced socket A, whose session is still running, as the
\* entry of chat c1.
C2_Replaced ==
    /\ chat["A"] = "c1"
    /\ chat["B"] = "c1"
    /\ pc["A"] = "recv"
    /\ active_connections["c1"] = "B"

\* C3: the turns of one chat_id are sequential: no two sessions of the same
\* chat_id are inside a turn at once.
C3_TurnsSequential ==
    \A s1, s2 \in Sockets :
        (s1 # s2 /\ chat[s1] = chat[s2] /\ InTurn(s1)) => ~InTurn(s2)

\* C4: at the claim check a claimed chat_id gets no reply (the session goes
\* back to receive, nothing is persisted or sent), an unclaimed one gets the
\* responder; and a manager-send with managerStatus false leaves its chat_id
\* unclaimed.
C4_ClaimGatesReply ==
    [][/\ \A s \in Sockets :
             (pc[s] = "bcast_user" /\ pc'[s] # "bcast_user")
             => IF chat[s] \in active_manager_chats
                THEN pc'[s] = "recv" /\ messages' = messages /\ wire' = {}
                ELSE pc'[s] \in {"ai_lookup", "echo"}
       /\ \A r \in Requests :
             (/\ pc[r] = "idle"
              /\ pc'[r] = "ms_db"
              /\ payload'[r].managerStatus = "false")
             => payload'[r].chat_id \notin active_manager_chats']_vars

\* Without a provider, the one session's first message got no reply and its
\* second one did: the chat was claimed at the first check and released
\* before the second.
C4_SuppressedThenReleased ==
    /\ ~ai_configured
    /\ UserBotSenders = <<"user", "user", "bot">>
    /\ "c1" \notin active_manager_chats

\* C5: when the append has been rejected max_attempts times, at least one
\* submit_tool_outputs call is made before the further append attempt, and
\* there is exactly one such attempt.
C5_ForcedCompletionBeforeFinalAppend ==
    /\ am_pc = "final" => submits >= 1
    /\ appends <= max_attempts + 1

\* C6: a turn whose reply is the provider-error text goes on from the send to
\* the user to the broadcast to the managers; the session does not end.
C6_ProviderFailureYieldsReply ==
    [][\A s \in Sockets :
          (/\ pc[s] = "reply_user"
           /\ bot[s] \in ProviderErrorTexts
           /\ pc'[s] # "reply_user")
          => pc'[s] = "bcast_bot"]_vars

\* C7: a bot frame that goes to a socket carries the text of a persisted
\* sender=bot message.
C7_DeliveredBotRepliesArePersisted ==
    \A w \in WiredFrames :
        w[2].sender = "bot"
        => \E i \in DOMAIN messages :
               messages[i].sender = "bot" /\ messages[i].content = w[2].message

\* C8: whatever happens to the send to the user, a bot reply's turn goes on
\* to its broadcast, and a manager-send goes on to its broadcast and never
\* answers with a server error.
C8_UserSendFailureNotSurfaced ==
    [][/\ \A s \in Sockets :
             (pc[s] = "reply_user" /\ pc'[s] # "reply_user")
             => pc'[s] = "bcast_bot"
       /\ \A r \in Requests :
             (pc[r] = "ms_send" /\ pc'[r] # "ms_send")
             => pc'[r] = "ms_bcast" /\ <<r, "500">> \notin wire']_vars

\* C9: when a broadcast's loop is about to end, every manager socket that
\* was registered when it started and still is has been sent the payload.
C9_BroadcastReachesEveryRegistered ==
    \A t \in Tasks :
        (pc[t] \in BcastPcs /\ bi[t] >= Len(mgr_connections))
        => \A m \in bstart[t] :
               m \in Range(mgr_connections) => m \in bsent[t]

\* C10: a user has at most one provider thread binding.
C10_OneBindingPerUser ==
    \A c \in Chats : Cardinality(Bindings(c)) <= 1

\* C11: without a provider, the reply to an inbound text t is "echo: "
\* followed by t: that text is the one persisted as sender=bot last and the
\* one about to be sent to the user and broadcast.
C11_EchoReplyText ==
    \A s \in Sockets :
        (~ai_configured /\ pc[s] = "reply_user")
        => /\ bot[s] = <<"echo: ">> \o msg[s]
           /\ \E i \in DOMAIN messages :
                  /\ messages[i].sender = "bot"
                  /\ messages[i].thread_id = thread[s]
                  /\ messages[i].content = <<"echo: ">> \o msg[s]

\* C12: a manager-send call is taken on only with a chat_id and a message;
\* the step that answers 400 persists nothing, flushes nothing, sends
\* nothing to a socket, starts no call and leaves the hand-off set as it is.
C12_MissingFieldRejected ==
    [][\A r \in Requests :
          /\ (pc[r] = "idle" /\ pc'[r] = "ms_db")
             => payload'[r].chat_id # None /\ payload'[r].message # <<>>
          /\ <<r, "400">> \in wire'
             => /\ wire' = {<<r, "400">>}
                /\ UNCHANGED <<messages, pending, active_manager_chats,
                               active_connections, mgr_connections, pc,
                               payload>>]_vars

\* A call was answered 400 while a user session is waiting for its next
\* frame and its chat is unclaimed.
C12_Rejected ==
    /\ wire = {<<"r1", "400">>}
    /\ pc["A"] = "recv"
    /\ active_manager_chats = {}

\* The answers of GET /history that the last step gave.
HistoryAnswers == {w[2] : w \in {v \in wire : v[1] = "GET /history"}}

\* C13: the history of a known chat_id is in non-decreasing timestamp order
\* and is, entry for entry, the rows of its latest thread in the order in
\* which they were appended to the table.
C13_HistoryIsAppendOrder ==
    \A a \in HistoryAnswers :
        a.chat_id \in users
        => /\ \A i \in 1..(Len(a.body) - 1) :
                  ~StrLess(a.body[i + 1].timestamp, a.body[i].timestamp)
           /\ LET rows == ThreadRows(LatestThread(a.chat_id))
              IN a.body = [i \in DOMAIN rows |-> HistoryEntry(rows[i])]

\* The answers of GET /manager/chats that the last step gave.
ListingAnswers == {w[2] : w \in {v \in wire : v[1] = "GET /manager/chats"}}

\* The timestamp of the latest row of user c's latest thread, 0 when the
\* thread has no row.
LastMessageTime(c) ==
    LET rows == ThreadRows(LatestThread(c))
        stamps == {rows[i].timestamp : i \in DOMAIN rows}
    IN IF stamps = {} THEN 0
       ELSE CHOOSE t \in stamps : \A u \in stamps : u <= t

\* C14: the listing has one entry for every user, and of two entries the
\* earlier one's user has the later (or the same) latest message; a user
\* without messages comes after every user with one.
C14_ListingCompleteAndSorted ==
    \A a \in ListingAnswers :
        /\ {a.body[i].id : i \in DOMAIN a.body} = users
        /\ Len(a.body) = Cardinality(users)
        /\ \A i, j \in DOMAIN a.body :
               i < j => /\ LastMessageTime(a.body[i].id)
                            >= LastMessageTime(a.body[j].id)
                        /\ (LastMessageTime(a.body[i].id) = 0
                            => LastMessageTime(a.body[j].id) = 0)

\* A listing of two users with messages whose latest messages are a whole
\* second and a fraction of that second: the strings differ in length.
C14_ListedTwo ==
    \E a \in ListingAnswers :
        /\ Len(a.body) = 2
        /\ a.body[1].messages # <<>>
        /\ a.body[2].messages # <<>>
        /\ Len(SortKey(a.body[1])) # Len(SortKey(a.body[2]))
        /\ SortKey(a.body[1])[1] = SortKey(a.body[2])[1]

\* The statuses of a client error.
ClientErrors == {"400", "404"}

\* C15: a history read for a chat_id without a user, or without a thread,
\* is answered with a client error.
C15_UnknownHistoryIsNotFound ==
    \A a \in HistoryAnswers :
        (a.chat_id \notin users \/ LatestThread(a.chat_id) = 0)
        => a.status \in ClientErrors

\* The positions of a turn after its claim check, up to the reply's text.
RespondingPcs == {"ai_lookup", "ai_ensure", "ai_run", "echo"}

TurnOrder ==
    {<<"recv", "bcast_user">>, <<"bcast_user", "recv">>,
     <<"bcast_user", "ai_lookup">>, <<"bcast_user", "echo">>,
     <<"ai_lookup", "ai_ensure">>, <<"ai_ensure", "ai_run">>,
     <<"ai_ensure", "reply_user">>, <<"ai_run", "reply_user">>,
     <<"echo", "reply_user">>, <<"reply_user", "bcast_bot">>,
     <<"bcast_bot", "recv">>}

\* Row i of the table is the turn's user message / the turn's reply.
IsTurnUserRow(s, i) ==
    /\ messages[i].thread_id = thread[s]
    /\ messages[i].sender = "user"
    /\ messages[i].content = msg[s]

IsTurnBotRow(s, i) ==
    /\ messages[i].thread_id = thread[s]
    /\ messages[i].sender = "bot"
    /\ messages[i].content = bot[s]

\* C17: a turn that is past its receive has its user message persisted,
\* claimed or not; a turn that is at the send to the user or at the
\* broadcast of its reply has the reply persisted after the user message;
\* and a session inside a turn moves only along the turn's order.
C17_TurnEventOrder ==
    /\ [](\A s \in Sockets :
             /\ InTurn(s) => \E i \in DOMAIN messages : IsTurnUserRow(s, i)
             /\ pc[s] \in {"reply_user", "bcast_bot"}
                => \E i, j \in DOMAIN messages :
                       i < j /\ IsTurnUserRow(s, i) /\ IsTurnBotRow(s, j))
    /\ [][\A s \in Sockets :
             (InTurn(s) /\ pc'[s] # pc[s] /\ pc'[s] # "done")
             => <<pc[s], pc'[s]>> \in TurnOrder]_vars

\* C18: a call of add_user_message ends: it returns or it raises.
C18_AddUserMessageTerminates ==
    (am_pc = "poll") ~> (am_pc \in {"returned", "raised"})

\* The sender roles of the frame format.
SenderRoles == {"user", "bot", "manager", "action"}

\* The role of a manager-send: "manager" without an action flag, "action"
\* with one, whatever its value.
ExpectedRole(action) == IF action = "absent" THEN "manager" ELSE "action"

\* C19: every frame sent to a socket carries one of the four sender roles,
\* and the row a manager-send persists, the frame it sends to the user and
\* the frames it broadcasts all carry the role its action flag gives.
C19_ManagerSendRoles ==
    /\ [](\A w \in WiredFrames : w[2].sender \in SenderRoles)
    /\ [][\A r \in Requests :
             (pc[r] = "ms_db" /\ pc'[r] = "ms_send")
             => messages'[Len(messages')].sender =
                    ExpectedRole(payload[r].action)]_vars
    /\ [][\A r \in Requests :
             (\/ pc[r] = "ms_send" /\ pc'[r] = "ms_bcast"
              \/ pc[r] = "ms_bcast" /\ bi'[r] # bi[r])
             => \A w \in wire' :
                    w[2].sender = ExpectedRole(payload[r].action)]_vars

\* C20: the hand-off set changes only in the step that takes on a
\* manager-send with a managerStatus, which adds the call's chat_id (true) or
\* removes it (false); a manager-send without one leaves the set alone; and
\* at the claim check a turn is dropped exactly when its chat_id is in the
\* set.
C20_HandoffOnlyByManagerStatus ==
    [][/\ active_manager_chats' # active_manager_chats
          => \E r \in Requests :
                /\ pc[r] = "idle"
                /\ pc'[r] = "ms_db"
                /\ \/ /\ payload'[r].managerStatus = "true"
                      /\ active_manager_chats' =
                             active_manager_chats \cup {payload'[r].chat_id}
                   \/ /\ payload'[r].managerStatus = "false"
                      /\ active_manager_chats' =
                             active_manager_chats \ {payload'[r].chat_id}
       /\ \A r \in Requests :
             (/\ pc[r] = "idle"
              /\ pc'[r] = "ms_db"
              /\ payload'[r].managerStatus = "absent")
             => active_manager_chats' = active_manager_chats
       /\ \A s \in Sockets :
             (pc[s] = "bcast_user" /\ pc'[s] # pc[s])
             => (pc'[s] = "recv" <=> chat[s] \in active_manager_chats)]_vars

\* A manager-send without managerStatus has been taken on for a claimed
\* chat, whose user session is waiting for its next frame.
C20_PlainSendWhileClaimed ==
    /\ pc["r1"] = "ms_db"
    /\ payload["r1"].managerStatus = "absent"
    /\ payload["r1"].chat_id = "c1"
    /\ active_manager_chats = {"c1"}
    /\ pc["A"] = "recv"

\* The step in which call r is rejected with HTTP 404.
Rejected404(r) == pc[r] = "ms_db" /\ <<r, "404">> \in wire'

\* A call that has been taken on with managerStatus true for chat c and has
\* not reached its selects yet.
ClaimInFlight(c) ==
    \E r \in Requests :
        /\ pc[r] = "ms_db"
        /\ payload[r].chat_id = c
        /\ payload[r].managerStatus = "true"

\* C21: a manager-send rejected with 404 has no effect: the step that rejects
\* it persists no message, sends no frame to a user or a manager and leaves
\* the hand-off set alone; and the call as a whole leaves the hand-off set as
\* it found it: as users and threads are never deleted and the set changes
\* only in manager-send calls, a chat_id in the set has a user and a thread,
\* or is the chat_id of a call still on its way to its selects.
C21_RejectedSendHasNoEffect ==
    /\ [][\A r \in Requests :
             Rejected404(r)
             => /\ messages' = messages
                /\ WiredFrames' = {}
                /\ active_manager_chats' = active_manager_chats]_vars
    /\ [](\A c \in active_manager_chats :
             \/ c \in users /\ LatestThread(c) # 0
             \/ ClaimInFlight(c))

====
